---- MODULE Spec2Model ----
(***************************************************************************)
(* surfdist/analysis.py: geodesic distance fields, nearest-seed zones,    *)
(* bounded pairwise distances and region distance matrices on the cortex  *)
(* part of a surface mesh.                                                 *)
(*                                                                         *)
(* Conventions of the model.                                               *)
(*  - TLA+ sequences are 1-based: full-surface vertex v of the program is *)
(*    vertex v+1 here (Verts == 1..N), cortex-local index i is i+1.  Zone  *)
(*    ids are values, not positions, and are kept as the program has them. *)
(*  - Distances are float64 in the program.  They are counted here in     *)
(*    units of one representable float64 step, at a scale where float32   *)
(*    represents every second step (astype_float32).                       *)
(*  - An exception leaves the call with pc = "raised" and its class in    *)
(*    error; a return leaves it with pc = "returned".                      *)
(***************************************************************************)
EXTENDS Integers, Sequences, FiniteSets

N == 3              \* vertices of the full surface mesh
MaxSeeds == 2       \* seed sets handed to zone_calc
MaxDistance == 4    \* largest maxdist handed to dist_calc_pairwise

Verts == 1..N
Names == {"Unknown", "A", "B"}
DefaultExceptions == {"Unknown", "Medial_wall"}

VARIABLES
    cortex,        \* sorted sequence of the cortical vertices
    geo,           \* the solver's point-to-point distance on the cortex sub-mesh
    pc,            \* position of the call
    op,            \* the function called
    source_nodes,  \* dist_calc: <<set>>; zone_calc: sequence of seed sets
    labels,        \* the label collection: [names, annot]
    exceptions,    \* dist_calc_matrix: names left out
    maxdist,       \* dist_calc_pairwise: the search radius
    x,             \* loop index
    dist_vals,     \* zone_calc: one distance field per seed
    data,          \* the cortex-space vector before recort
    dist,          \* the returned full-surface vector (dist / zone)
    gd_matrix,     \* the solver's sparse matrix, before astype
    pairwise,      \* the returned full-surface sparse matrix
    rois,          \* dist_calc_matrix: retained label names
    dist_roi,      \* dist_calc_matrix: one distance field per region
    dist_mat,      \* dist_calc_matrix: the matrix, row by row
    solves,        \* every source set handed to gdist.compute_gdist, in order
    error,         \* class of the exception that ended the call
    err_tag        \* seed/region number carried by the exception, 0 if none

vars == <<cortex, geo, pc, op, source_nodes, labels, exceptions, maxdist, x,
          dist_vals, data, dist, gd_matrix, pairwise, rois, dist_roi,
          dist_mat, solves, error, err_tag>>

-----------------------------------------------------------------------------
(* Helpers *)

Min(S) == CHOOSE m \in S : \A y \in S : m <= y
Max(S) == CHOOSE m \in S : \A y \in S : m >= y
Abs(a) == IF a < 0 THEN -a ELSE a
Range(s) == {s[i] : i \in DOMAIN s}

RECURSIVE SortedSeq(_)
SortedSeq(S) == IF S = {} THEN <<>>
                ELSE LET m == Min(S) IN <<m>> \o SortedSeq(S \ {m})

\* sequences of distinct elements of S, of length 1..Cardinality(S)
RECURSIVE DistinctSeqs(_)
DistinctSeqs(S) ==
    IF S = {} THEN {<<>>}
    ELSE {<<>>} \cup UNION {{<<e>> \o t : t \in DistinctSeqs(S \ {e})} : e \in S}

\* sequences over S of length 1..k
RECURSIVE SeqsUpTo(_, _)
SeqsUpTo(S, k) ==
    IF k = 0 THEN {<<>>}
    ELSE LET shorter == SeqsUpTo(S, k - 1)
         IN  shorter \cup {Append(t, e) : t \in {u \in shorter : Len(u) = k - 1}, e \in S}

-----------------------------------------------------------------------------
(* The collaborators of analysis.py *)

\* a cortex mask: strictly increasing, non-empty
CortexMasks == {SortedSeq(S) : S \in (SUBSET Verts) \ {{}}}

\* The solver's distances between cortex vertices i and j.  The sub-mesh is
\* a strip of equal edges (2 units apart per step); the solver's result may
\* be one unit longer for one ordered pair (a rounding difference between
\* the solve from i and the solve from j) or for one pair in both directions.
GeoOf(nC, one_way, both) ==
    [i \in 1..nC |-> [j \in 1..nC |->
        2 * Abs(i - j)
        + (IF <<i, j>> \in one_way THEN 1 ELSE 0)
        + (IF {i, j} \in both THEN 1 ELSE 0)]]

OffDiag(nC) == {p \in (1..nC) \X (1..nC) : p[1] # p[2]}

GeoFields(nC) ==
    {GeoOf(nC, {}, {})}
    \cup {GeoOf(nC, {p}, {}) : p \in OffDiag(nC)}
    \cup {GeoOf(nC, {}, {{p[1], p[2]}}) : p \in OffDiag(nC)}

Symmetric(g) == \A i \in DOMAIN g : \A j \in DOMAIN g : g[i][j] = g[j][i]

\* a distance no vertex of the mesh is at: the solver's "unreachable"
Unreachable == 4 * N + 4

\* utils.surf_keep_cortex: the sub-mesh has one vertex per mask entry
surf_keep_cortex(c) == Len(c)

\* utils.translate_src: full-surface indices -> cortex-local indices
InCortex(src, c) == src \subseteq Range(c)
translate_src(src, c) == {i \in DOMAIN c : c[i] \in src}

\* gdist.compute_gdist: per vertex the minimum distance to any source
compute_gdist(g, nC, sources) ==
    [i \in 1..nC |-> IF sources = {} THEN Unreachable
                     ELSE Min({g[s][i] : s \in sources})]

\* gdist.local_gdist_matrix: entries <<i, j, d>> only where d <= max_distance
local_gdist_matrix(g, nC, max_distance) ==
    {<<p[1], p[2], g[p[1]][p[2]]>> : p \in {q \in OffDiag(nC) : g[q[1]][q[2]] <= max_distance}}

\* utils.recort: scatter a cortex-space vector into a zero full-surface one
recort(input_data, n, c) ==
    [v \in 1..n |-> IF \E i \in DOMAIN c : c[i] = v
                    THEN input_data[CHOOSE i \in DOMAIN c : c[i] = v]
                    ELSE 0]

\* utils.recort2d: relabel every entry of the sparse matrix
recort2d(input_data, n, c) == {<<c[e[1]], c[e[2]], e[3]>> : e \in input_data}

\* load.get_freesurfer_label / load.load_freesurfer_label
get_freesurfer_label(l) == l.names
load_freesurfer_label(l, roi) == {v \in Verts : l.annot[v] = roi}

\* a label collection: distinct names in colour-table order, every vertex
\* carrying one of them (a name may carry no vertex)
LabelSets ==
    {[names |-> nm, annot |-> an] :
        nm \in DistinctSeqs(Names) \ {<<>>}, an \in [Verts -> Names]}

WellFormedLabels(l) == \A v \in Verts : l.annot[v] \in Range(l.names)

NoLabels == [names |-> <<>>, annot |-> [v \in Verts |-> "Unknown"]]

-----------------------------------------------------------------------------
(* The arithmetic of analysis.py *)

\* .astype(np.float32): round to the nearest float32 (every second unit),
\* ties to the even one
astype_float32(v) ==
    LET lo == (v \div 2) * 2
    IN  IF v = lo THEN v
        ELSE IF (lo \div 2) % 2 = 0 THEN lo ELSE lo + 2

\* gdist.local_gdist_matrix(cortex_vertices, cortex_triangles, max_distance=maxdist)
pairwise_unbounded(g, nC, md) == local_gdist_matrix(g, nC, Unreachable)
pairwise_query(g, nC, md) == local_gdist_matrix(g, nC, md)

\* np.argsort(col)[0]: the (0-based) row a sort of the column puts first.
\* The default kind, quicksort, is not stable: among equal keys any may come
\* first.
ArgsortFirst(col) ==
    {r - 1 : r \in {q \in DOMAIN col : \A y \in DOMAIN col : col[q] <= col[y]}}

\* np.argsort(dist_vals, axis=0)[0, :] + 1: every vector the line can give
ZoneIds_nooffset(dv, nC) ==
    LET first == [i \in 1..nC |-> ArgsortFirst([r \in DOMAIN dv |-> dv[r][i]])]
    IN  {f \in [1..nC -> 0..(Len(dv) - 1)] : \A i \in 1..nC : f[i] \in first[i]}
ZoneIds(dv, nC) ==
    LET first == [i \in 1..nC |-> ArgsortFirst([r \in DOMAIN dv |-> dv[r][i]])]
    IN  {[i \in 1..nC |-> f[i] + 1] :
            f \in {h \in [1..nC -> 0..(Len(dv) - 1)] : \A i \in 1..nC : h[i] \in first[i]}}

\* rs = np.where([a not in exceptions for a in label_list])[0]; rois = [...]
Rois_unfiltered(label_list, exc) == label_list
Rois(label_list, exc) == SelectSeq(label_list, LAMBDA a : a \notin exc)

\* np.min(dist_roi[:, translated_source_nodes], axis = 1)
MatRow_max(droi, cols) ==
    [a \in DOMAIN droi |-> Max({droi[a][v] : v \in cols})]
MatRow_shifted(droi, cols) ==
    [a \in DOMAIN droi |-> Min({droi[a][(v % Len(droi[a])) + 1] : v \in cols})]
MatRow(droi, cols) ==
    [a \in DOMAIN droi |-> Min({droi[a][v] : v \in cols})]

-----------------------------------------------------------------------------
(* State *)

Init ==
    /\ cortex \in CortexMasks
    /\ geo \in GeoFields(Len(cortex))
    /\ pc = "idle"
    /\ op = "none"
    /\ source_nodes = <<>>
    /\ labels = NoLabels
    /\ exceptions = {}
    /\ maxdist = 0
    /\ x = 0
    /\ dist_vals = <<>>
    /\ data = <<>>
    /\ dist = <<>>
    /\ gd_matrix = {}
    /\ pairwise = {}
    /\ rois = <<>>
    /\ dist_roi = <<>>
    /\ dist_mat = <<>>
    /\ solves = <<>>
    /\ error = "none"
    /\ err_tag = 0

\* an exception leaves the function: nothing in analysis.py catches it or
\* adds to it
Raise(kind) ==
    /\ pc' = "raised"
    /\ error' = kind
    /\ err_tag' = 0

NoRaise == UNCHANGED <<error, err_tag>>

-----------------------------------------------------------------------------
(* dist_calc *)

dist_calc_dropping(src) ==
    /\ pc = "idle"
    /\ op' = "dist_calc"
    /\ source_nodes' = <<src>>
    /\ LET nC == surf_keep_cortex(cortex)
           translated_source_nodes == translate_src(src, cortex)
       IN  /\ solves' = Append(solves, translated_source_nodes)
           /\ data' = compute_gdist(geo, nC, translated_source_nodes)
           /\ dist' = recort(data', N, cortex)
           /\ pc' = "returned"
           /\ NoRaise
    /\ UNCHANGED <<cortex, geo, labels, exceptions, maxdist, x, dist_vals,
                   gd_matrix, pairwise, rois, dist_roi, dist_mat>>

dist_calc(src) ==
    /\ pc = "idle"
    /\ op' = "dist_calc"
    /\ source_nodes' = <<src>>
    /\ LET nC == surf_keep_cortex(cortex)
           translated_source_nodes == translate_src(src, cortex)
       IN  IF ~InCortex(src, cortex)
           THEN /\ Raise("OutOfCortexError")
                /\ UNCHANGED <<solves, data, dist>>
           ELSE /\ solves' = Append(solves, translated_source_nodes)
                /\ \E solved \in BOOLEAN :
                     IF solved
                     THEN /\ data' = compute_gdist(geo, nC, translated_source_nodes)
                          /\ dist' = recort(data', N, cortex)
                          /\ pc' = "returned"
                          /\ NoRaise
                     ELSE /\ Raise("GeodesicSolverError")
                          /\ UNCHANGED <<data, dist>>
    /\ UNCHANGED <<cortex, geo, labels, exceptions, maxdist, x, dist_vals,
                   gd_matrix, pairwise, rois, dist_roi, dist_mat>>

-----------------------------------------------------------------------------
(* dist_calc_pairwise *)

dist_calc_pairwise(md) ==
    /\ pc = "idle"
    /\ op' = "dist_calc_pairwise"
    /\ maxdist' = md
    /\ LET nC == surf_keep_cortex(cortex)
       IN  \E solved \in BOOLEAN :
             IF solved
             THEN /\ gd_matrix' = pairwise_query(geo, nC, md)
                  /\ pairwise' = recort2d({<<e[1], e[2], astype_float32(e[3])>> : e \in gd_matrix'},
                                          N, cortex)
                  /\ pc' = "returned"
                  /\ NoRaise
             ELSE /\ Raise("GeodesicSolverError")
                  /\ UNCHANGED <<gd_matrix, pairwise>>
    /\ UNCHANGED <<cortex, geo, source_nodes, labels, exceptions, x, dist_vals,
                   data, dist, rois, dist_roi, dist_mat, solves>>

-----------------------------------------------------------------------------
(* zone_calc *)

zone_calc(seeds) ==
    /\ pc = "idle"
    /\ op' = "zone_calc"
    /\ source_nodes' = seeds
    /\ dist_vals' = [r \in 1..Len(seeds) |->
                        [i \in 1..surf_keep_cortex(cortex) |-> 0]]
    /\ x' = 1
    /\ pc' = "zone_loop"
    /\ NoRaise
    /\ UNCHANGED <<cortex, geo, labels, exceptions, maxdist, data, dist,
                   gd_matrix, pairwise, rois, dist_roi, dist_mat, solves>>

\* one pass of "for x in range(len(source_nodes))"
zone_calc_solve ==
    /\ pc = "zone_loop"
    /\ LET nC == surf_keep_cortex(cortex)
           translated_source_nodes == translate_src(source_nodes[x], cortex)
       IN  IF ~InCortex(source_nodes[x], cortex)
           THEN /\ Raise("OutOfCortexError")
                /\ UNCHANGED <<solves, dist_vals, x>>
           ELSE /\ solves' = Append(solves, translated_source_nodes)
                /\ \E solved \in BOOLEAN :
                     IF solved
                     THEN /\ dist_vals' = [dist_vals EXCEPT ![x] =
                                 compute_gdist(geo, nC, translated_source_nodes)]
                          /\ x' = x + 1
                          /\ pc' = IF x = Len(source_nodes) THEN "zone_sort" ELSE "zone_loop"
                          /\ NoRaise
                     ELSE /\ Raise("GeodesicSolverError")
                          /\ UNCHANGED <<dist_vals, x>>
    /\ UNCHANGED <<cortex, geo, op, source_nodes, labels, exceptions, maxdist,
                   data, dist, gd_matrix, pairwise, rois, dist_roi, dist_mat>>

\* data = np.argsort(...)[0, :] + 1; zone = recort(data, surf, cortex)
zone_calc_sort ==
    /\ pc = "zone_sort"
    /\ \E z \in ZoneIds(dist_vals, surf_keep_cortex(cortex)) :
         /\ data' = z
         /\ dist' = recort(z, N, cortex)
    /\ pc' = "returned"
    /\ NoRaise
    /\ UNCHANGED <<cortex, geo, op, source_nodes, labels, exceptions, maxdist,
                   x, dist_vals, gd_matrix, pairwise, rois, dist_roi, dist_mat,
                   solves>>

-----------------------------------------------------------------------------
(* dist_calc_matrix *)

dist_calc_matrix(l, exc) ==
    /\ pc = "idle"
    /\ op' = "dist_calc_matrix"
    /\ labels' = l
    /\ exceptions' = exc
    /\ rois' = Rois(get_freesurfer_label(l), exc)
    /\ x' = 1
    /\ pc' = IF Len(rois') = 0 THEN "returned" ELSE "mat_solve"
    /\ NoRaise
    /\ UNCHANGED <<cortex, geo, source_nodes, maxdist, dist_vals, data, dist,
                   gd_matrix, pairwise, dist_roi, dist_mat, solves>>

\* one pass of the first "for roi in rois"
dist_calc_matrix_solve ==
    /\ pc = "mat_solve"
    /\ LET nC == surf_keep_cortex(cortex)
           members == load_freesurfer_label(labels, rois[x])
           translated_source_nodes == translate_src(members, cortex)
       IN  IF ~InCortex(members, cortex)
           THEN /\ Raise("OutOfCortexError")
                /\ UNCHANGED <<solves, dist_roi, x>>
           ELSE /\ solves' = Append(solves, translated_source_nodes)
                /\ \E solved \in BOOLEAN :
                     IF solved
                     THEN /\ dist_roi' = Append(dist_roi,
                                 compute_gdist(geo, nC, translated_source_nodes))
                          /\ x' = IF x = Len(rois) THEN 1 ELSE x + 1
                          /\ pc' = IF x = Len(rois) THEN "mat_min" ELSE "mat_solve"
                          /\ NoRaise
                     ELSE /\ Raise("GeodesicSolverError")
                          /\ UNCHANGED <<dist_roi, x>>
    /\ UNCHANGED <<cortex, geo, op, source_nodes, labels, exceptions, maxdist,
                   dist_vals, data, dist, gd_matrix, pairwise, rois, dist_mat>>

\* one pass of the second "for roi in rois"; np.min of no column raises
dist_calc_matrix_min ==
    /\ pc = "mat_min"
    /\ LET members == load_freesurfer_label(labels, rois[x])
           translated_source_nodes == translate_src(members, cortex)
       IN  IF translated_source_nodes = {}
           THEN /\ Raise("ValueError")
                /\ UNCHANGED <<dist_mat, x>>
           ELSE /\ dist_mat' = Append(dist_mat, MatRow(dist_roi, translated_source_nodes))
                /\ x' = x + 1
                /\ pc' = IF x = Len(rois) THEN "returned" ELSE "mat_min"
                /\ NoRaise
    /\ UNCHANGED <<cortex, geo, op, source_nodes, labels, exceptions, maxdist,
                   dist_vals, data, dist, gd_matrix, pairwise, rois, dist_roi,
                   solves>>

-----------------------------------------------------------------------------

SeedSets == (SUBSET Verts) \ {{}}
\* the seed regions handed to zone_calc: 1..MaxSeeds disjoint vertex sets
SeedSeqs ==
    {sq \in SeqsUpTo(SeedSets, MaxSeeds) \ {<<>>} :
        \A i \in DOMAIN sq : \A j \in DOMAIN sq : i # j => sq[i] \cap sq[j] = {}}
LabelInputs == {m \in LabelSets : WellFormedLabels(m)}
ExceptionSets == {DefaultExceptions, {"B"}}

Next ==
    \/ pc = "idle" /\ \E src \in SeedSets : dist_calc(src)
    \/ pc = "idle" /\ \E md \in 1..MaxDistance : dist_calc_pairwise(md)
    \/ pc = "idle" /\ \E seeds \in SeedSeqs : zone_calc(seeds)
    \/ zone_calc_solve
    \/ zone_calc_sort
    \/ pc = "idle" /\ \E l \in LabelInputs, exc \in ExceptionSets : dist_calc_matrix(l, exc)
    \/ dist_calc_matrix_solve
    \/ dist_calc_matrix_min

Spec == Init /\ [][Next]_vars

-----------------------------------------------------------------------------
(* Vocabulary of the properties *)

Finished == pc \in {"returned", "raised"}
Returned(f) == op = f /\ pc = "returned"
CortexSet == Range(cortex)
LocalIndex(v) == CHOOSE i \in DOMAIN cortex : cortex[i] = v
Locals(S) == {LocalIndex(v) : v \in S \cap CortexSet}
Members(name) == {v \in Verts : labels.annot[v] = name}
Position(name) == CHOOSE i \in DOMAIN labels.names : labels.names[i] = name

\* the source sets the caller supplied, in the order the call takes them
Supplied ==
    IF op = "dist_calc_matrix" THEN [i \in DOMAIN rois |-> Members(rois[i])]
    ELSE source_nodes
OffendingSets == {i \in DOMAIN Supplied : ~(Supplied[i] \subseteq CortexSet)}
LoopCall == op \in {"zone_calc", "dist_calc_matrix"}
SourceCall == op \in {"dist_calc", "zone_calc", "dist_calc_matrix"}

-----------------------------------------------------------------------------
(* C1: zone_calc returns at every cortex vertex the SMALLEST seed number   *)
(* whose distance field is minimal there (ties go to the lower index).     *)
ZoneLowestIndex ==
    Returned("zone_calc") =>
        \A i \in DOMAIN cortex :
            dist[cortex[i]] =
                Min({k \in DOMAIN dist_vals :
                        \A j \in DOMAIN dist_vals : dist_vals[k][i] <= dist_vals[j][i]})

(* C2: with a symmetric solver distance and at least two retained regions, *)
(* the returned matrix is symmetric.                                       *)
MatrixSymmetric ==
    (Returned("dist_calc_matrix") /\ Len(rois) >= 2 /\ Symmetric(geo)) =>
        \A a \in DOMAIN dist_mat : \A b \in DOMAIN dist_mat :
            dist_mat[a][b] = dist_mat[b][a]

MatrixSymmetricWitness ==
    /\ Returned("dist_calc_matrix")
    /\ Len(rois) >= 2
    /\ Symmetric(geo)
    /\ \E a \in DOMAIN dist_mat : \E b \in DOMAIN dist_mat :
         /\ a # b
         /\ dist_mat[a][b] > 0
         /\ Cardinality(Members(rois[a])) >= 2

(* C3, as stated: the entry at row a, column b is the minimum over the     *)
(* members of region b of the field solved from region a.                  *)
MatrixEntryBySourceRow ==
    Returned("dist_calc_matrix") =>
        \A a \in DOMAIN rois : \A b \in DOMAIN rois :
            dist_mat[a][b] = Min({dist_roi[a][LocalIndex(v)] : v \in Members(rois[b])})

(* C3, amended: dist_roi[a] is the field of the a-th solve, whose sources  *)
(* are region a's translated members, and the entry at row a, column b is  *)
(* the minimum over the members of region a (the row's region) of the      *)
(* field solved from region b (the column's region).                       *)
MatrixEntryByRowMembers ==
    Returned("dist_calc_matrix") =>
        /\ Len(dist_roi) = Len(rois)
        /\ \A a \in DOMAIN rois :
             /\ solves[a] = Locals(Members(rois[a]))
             /\ \A i \in DOMAIN cortex :
                  dist_roi[a][i] = Min({geo[s][i] : s \in solves[a]})
        /\ \A a \in DOMAIN rois : \A b \in DOMAIN rois :
             dist_mat[a][b] = Min({dist_roi[b][LocalIndex(v)] : v \in Members(rois[a])})

MatrixEntryWitness ==
    /\ Returned("dist_calc_matrix")
    /\ Len(rois) >= 2
    /\ \E a \in DOMAIN dist_mat : \E b \in DOMAIN dist_mat :
         dist_mat[a][b] # dist_mat[b][a]

(* C4: every diagonal entry of the returned matrix is exactly 0.           *)
DiagonalZero ==
    Returned("dist_calc_matrix") =>
        \A a \in DOMAIN rois : dist_mat[a][a] = 0

DiagonalZeroWitness ==
    /\ Returned("dist_calc_matrix")
    /\ Len(rois) >= 2
    /\ \E a \in DOMAIN rois : Cardinality(Members(rois[a])) >= 2
    /\ \E a \in DOMAIN rois : \E b \in DOMAIN rois : dist_mat[a][b] > 0

(* C5: dist_calc and zone_calc return a vector of length n that holds the  *)
(* i-th cortex-space value at position C[i] and 0 at every vertex outside  *)
(* the cortex; the cortex-space vector is the solver's field (dist_calc)   *)
(* or zone ids in 1..k (zone_calc), so a zone of 0 marks exactly the       *)
(* non-cortex vertices.                                                    *)
ProjectionFidelity ==
    (Returned("dist_calc") \/ Returned("zone_calc")) =>
        /\ DOMAIN dist = 1..N
        /\ \A i \in DOMAIN cortex : dist[cortex[i]] = data[i]
        /\ \A v \in Verts \ CortexSet : dist[v] = 0
        /\ op = "dist_calc" =>
             \A i \in DOMAIN cortex :
                 data[i] = Min({geo[LocalIndex(s)][i] : s \in source_nodes[1]})
        /\ op = "zone_calc" =>
             \A v \in Verts :
                 /\ dist[v] = 0 <=> v \notin CortexSet
                 /\ v \in CortexSet => dist[v] \in 1..Len(source_nodes)

ProjectionWitness ==
    /\ Returned("zone_calc")
    /\ Len(cortex) < N
    /\ Len(cortex) >= 2
    /\ \E v \in Verts : dist[v] = 1
    /\ \E v \in Verts : dist[v] = 2

(* C6, as stated: a call given a source vertex outside the cortex mask     *)
(* always ends in OutOfCortexError.                                        *)
OutOfCortexAlwaysRaised ==
    (SourceCall /\ Finished /\ OffendingSets # {}) =>
        (pc = "raised" /\ error = "OutOfCortexError")

(* C6, amended: such a call returns no result; it ends in OutOfCortexError *)
(* raised at the first offending set, unless the solver failed on an       *)
(* earlier seed/region, and then in that GeodesicSolverError; no solve was *)
(* given a source set with the offending vertex dropped.                   *)
OutOfCortexNeverDropped ==
    (SourceCall /\ Finished /\ OffendingSets # {}) =>
        /\ pc = "raised"
        /\ \/ error = "OutOfCortexError" /\ Len(solves) = Min(OffendingSets) - 1
           \/ error = "GeodesicSolverError" /\ Len(solves) < Min(OffendingSets)
        /\ \A j \in DOMAIN solves :
             /\ Supplied[j] \subseteq CortexSet
             /\ Cardinality(solves[j]) = Cardinality(Supplied[j])

OutOfCortexWitness ==
    /\ op = "zone_calc"
    /\ pc = "raised"
    /\ error = "OutOfCortexError"
    /\ Len(solves) = 1
    /\ Min(OffendingSets) = 2
    /\ Supplied[2] \cap CortexSet # {}

(* C7: a retained region without member vertices (every other retained     *)
(* region lying in the cortex) ends dist_calc_matrix in EmptyRegionError,  *)
(* and the solver is never called with no source.                          *)
EmptyRegionRaises ==
    (/\ op = "dist_calc_matrix"
     /\ OffendingSets = {}
     /\ \E i \in DOMAIN rois : Members(rois[i]) = {}) =>
        /\ \A j \in DOMAIN solves : solves[j] # {}
        /\ Finished => (pc = "raised" /\ error = "EmptyRegionError")

(* C8: a solver failure on seed/region number j ends the call in a         *)
(* GeodesicSolverError that names j, with no result and no second attempt. *)
SolverFailureTagged ==
    (LoopCall /\ pc = "raised" /\ error = "GeodesicSolverError") =>
        /\ err_tag = x
        /\ Len(solves) = x
        /\ dist = <<>>

(* C9, as stated: every stored entry sits at (C[i], C[j]), carries the     *)
(* solver's value for (i, j), and is <= maxdist.                           *)
PairwiseBoundExact ==
    Returned("dist_calc_pairwise") =>
        \A e \in pairwise :
            /\ e[1] \in CortexSet /\ e[2] \in CortexSet
            /\ <<LocalIndex(e[1]), LocalIndex(e[2]), e[3]>> \in gd_matrix
            /\ e[3] <= maxdist

(* C9, amended: every stored entry sits at (C[i], C[j]) and carries the    *)
(* solver's value for (i, j) rounded to float32; the solver's value is     *)
(* <= maxdist, the stored one <= maxdist rounded to float32; rows and      *)
(* columns of non-cortex vertices hold no entry.                           *)
PairwiseBoundRounded ==
    Returned("dist_calc_pairwise") =>
        /\ \A e \in pairwise :
             /\ e[1] \in CortexSet /\ e[2] \in CortexSet
             /\ \E g \in gd_matrix :
                  /\ g[1] = LocalIndex(e[1]) /\ g[2] = LocalIndex(e[2])
                  /\ g[3] = geo[g[1]][g[2]]
                  /\ g[3] <= maxdist
                  /\ e[3] - g[3] \in {-1, 0, 1}
                  /\ e[3] % 2 = 0
             /\ e[3] <= astype_float32(maxdist)
        /\ \A g \in gd_matrix : \E e \in pairwise :
             e[1] = cortex[g[1]] /\ e[2] = cortex[g[2]]

PairwiseBoundWitness ==
    /\ Returned("dist_calc_pairwise")
    /\ Len(cortex) < N
    /\ \E e \in pairwise : e[3] > maxdist /\ e[1] # LocalIndex(e[1])

====
